---------------------------- MODULE Spec2Model ----------------------------
(***************************************************************************)
(* A model of the ALICE data pipeline:                                     *)
(*   - identifier clean-up and the two-step county join of                 *)
(*     ALICETigerIntegrator.create_county_choropleth_data                  *)
(*     (alice_tiger_integration.py),                                       *)
(*   - the percentage columns of ALICEDataConsolidator.clean_county_data   *)
(*     and clean_subcounty_data (alice_data_consolidator.py),              *)
(*   - the loop of ALICEDataConsolidator.process_all_files over the        *)
(*     workbooks and create_summary_statistics,                            *)
(*   - the derived metrics of ALICECensusIntegrator.integrate_all_data     *)
(*     (alice_census_integration.py).                                      *)
(* Text is a sequence of one-character strings, so that split, zfill, len  *)
(* and lower are computed character by character as pandas computes them.  *)
(* A cell of a data frame is NULL (NaN / None) or Val(x).                  *)
(***************************************************************************)
EXTENDS Integers, Sequences, FiniteSets, TLC

NULL == [null |-> TRUE]
Val(x) == [v |-> x]

\* pd.isna / pd.notna
IsNa(cell) == cell = NULL
NotNa(cell) == cell # NULL

(***************************************************************************)
(* Bounds of the model.                                                    *)
(***************************************************************************)
MaxRawLen == 6      \* longest identifier text drawn for the clean-up
MaxAttrs == 2       \* most ALICE records in one join
MaxCount == 1       \* largest household count drawn cell by cell
MaxSheetRows == 1   \* most rows of one sheet
MaxFiles == 3       \* most workbooks in the input directory
MaxMasterRows == 2  \* most rows of the master county table read back

(***************************************************************************)
(* Text helpers.                                                           *)
(***************************************************************************)
DigitChars == <<"0", "1", "2", "3", "4", "5", "6", "7", "8", "9">>

IsDigit(c) == \E i \in 1..Len(DigitChars) : DigitChars[i] = c

AllDigits(s) == \A i \in 1..Len(s) : IsDigit(s[i])

RECURSIVE Digits(_)
\* str() of a non-negative integer
Digits(n) == IF n < 10 THEN <<DigitChars[n + 1]>>
             ELSE Digits(n \div 10) \o <<DigitChars[(n % 10) + 1]>>

\* Series.astype(str): an int column prints as "6037", a float column as
\* "6037.0", text stays as it is.
AsStr(v) == CASE v.kind = "int"   -> Digits(v.n)
              [] v.kind = "float" -> Digits(v.n) \o <<".", "0">>
              [] v.kind = "text"  -> v.s

\* .str.split('.').str[0]: the text before the first point
SplitDot0(s) ==
    IF \E i \in 1..Len(s) : s[i] = "."
    THEN LET p == CHOOSE i \in 1..Len(s) :
                      s[i] = "." /\ \A j \in 1..(i - 1) : s[j] # "."
         IN  SubSeq(s, 1, p - 1)
    ELSE s

\* a zfill that also shifts a text of full width one place to the right
ZFillShift(s, width) ==
    IF Len(s) >= width THEN <<"0">> \o SubSeq(s, 1, Len(s) - 1)
    ELSE [i \in 1..width |->
            IF i <= width - Len(s) THEN "0" ELSE s[i - (width - Len(s))]]

\* .str.zfill(width): pad on the left with "0"; longer text is kept whole
ZFill(s, width) ==
    IF Len(s) >= width THEN s
    ELSE [i \in 1..width |->
            IF i <= width - Len(s) THEN "0" ELSE s[i - (width - Len(s))]]

UpperChars == <<"A", "B", "C", "D", "E", "F", "G", "H", "I", "J", "K", "L", "M",
                "N", "O", "P", "Q", "R", "S", "T", "U", "V", "W", "X", "Y", "Z">>
LowerChars == <<"a", "b", "c", "d", "e", "f", "g", "h", "i", "j", "k", "l", "m",
                "n", "o", "p", "q", "r", "s", "t", "u", "v", "w", "x", "y", "z">>

LowerChar(c) == IF \E i \in 1..Len(UpperChars) : UpperChars[i] = c
                THEN LowerChars[CHOOSE i \in 1..Len(UpperChars) : UpperChars[i] = c]
                ELSE c

\* str.lower()
Lower(s) == [i \in 1..Len(s) |-> LowerChar(s[i])]

(***************************************************************************)
(* Identifier clean-up (alice_tiger_integration.py lines 77-82).           *)
(***************************************************************************)
FipsWidth == 5

\* alice_df['GEO id2'].astype(str).str.split('.').str[0].str.zfill(5)
CleanFips(v) == ZFill(SplitDot0(AsStr(v)), FipsWidth)

\* counties_gdf['GEOID'].astype(str).str.zfill(5)
CleanGeoid(v) == ZFill(AsStr(v), FipsWidth)

\* alice_df['FIPS'].str.len() == 5: the rows kept for the primary join
ValidFips(f) == Len(f) = FipsWidth


(***************************************************************************)
(* The inputs of the join: the county shapefile and the ALICE mapping CSV. *)
(***************************************************************************)
Txt(n) == [kind |-> "text", s |-> n]
IntV(n) == [kind |-> "int", n |-> n]
FloatV(n) == [kind |-> "float", n |-> n]

Harris == <<"H", "a", "r", "r", "i", "s">>
HARRIS == <<"H", "A", "R", "R", "I", "S">>
Union == <<"U", "n", "i", "o", "n">>
Washington == <<"W", "a", "s", "h">>

\* rows of cb_2023_us_county_500k: GEOID, NAME, STUSPS, geometry
HarrisTX == [GEOID |-> Txt(<<"4", "8", "2", "0", "1">>), NAME |-> Harris,
             STUSPS |-> "TX", geometry |-> "polyHarris"]
UnionAR == [GEOID |-> Txt(<<"5", "1", "3", "9">>), NAME |-> Union,
            STUSPS |-> "AR", geometry |-> "polyUnion"]
UnionAR2 == [GEOID |-> Txt(<<"0", "5", "1", "4", "0">>), NAME |-> Union,
             STUSPS |-> "AR", geometry |-> "polyUnion2"]

WashingtonDC == [GEOID |-> Txt(<<"1", "1", "0", "0", "1">>), NAME |-> Washington,
                 STUSPS |-> "DC", geometry |-> "polyDistrict"]

Shapefiles == { <<HarrisTX, UnionAR>>, <<HarrisTX, UnionAR, UnionAR2>>,
                <<UnionAR, WashingtonDC>> }

MetricCols == <<"Households", "Poverty_Percentage", "ALICE_Percentage",
                "Below_ALICE_Threshold_Percentage", "Above_ALICE_Percentage">>
MetricSet == {MetricCols[i] : i \in 1..Len(MetricCols)}

Metrics(h, p, a, b, ab) ==
    [c \in MetricSet |->
        CASE c = "Households" -> h
          [] c = "Poverty_Percentage" -> p
          [] c = "ALICE_Percentage" -> a
          [] c = "Below_ALICE_Threshold_Percentage" -> b
          [] c = "Above_ALICE_Percentage" -> ab]

NoMetrics == [c \in MetricSet |-> NULL]

MetricRows == { Metrics(Val(100), Val(10), Val(20), Val(30), Val(70)),
                Metrics(Val(50), NULL, Val(40), NULL, Val(60)) }

RawIds == { FloatV(48201), IntV(5139), IntV(9), Txt(<<"A", "B">>), IntV(123456) }

Places == { <<Val("Texas"), Val(HARRIS)>>, <<Val("Arkansas"), Val(Union)>>,
            <<Val("District of Columbia"), Val(Washington)>>,
            <<Val("Texas"), NULL>> }

\* rows of ALICE_Mapping_County_Data.csv
AliceRows == { [GEO_id2 |-> r, State |-> pl[1], County |-> pl[2], m |-> mm] :
                 r \in RawIds, pl \in Places, mm \in MetricRows }

(***************************************************************************)
(* state_mapping (alice_tiger_integration.py lines 100-151).               *)
(***************************************************************************)
state_mapping == <<
    <<"Alabama", "AL">>, <<"Alaska", "AK">>, <<"Arizona", "AZ">>,
    <<"Arkansas", "AR">>, <<"California", "CA">>, <<"Colorado", "CO">>,
    <<"Connecticut", "CT">>, <<"Delaware", "DE">>, <<"Florida", "FL">>,
    <<"Georgia", "GA">>, <<"Hawaii", "HI">>, <<"Idaho", "ID">>,
    <<"Illinois", "IL">>, <<"Indiana", "IN">>, <<"Iowa", "IA">>,
    <<"Kansas", "KS">>, <<"Kentucky", "KY">>, <<"Louisiana", "LA">>,
    <<"Maine", "ME">>, <<"Maryland", "MD">>, <<"Massachusetts", "MA">>,
    <<"Michigan", "MI">>, <<"Minnesota", "MN">>, <<"Mississippi", "MS">>,
    <<"Missouri", "MO">>, <<"Montana", "MT">>, <<"Nebraska", "NE">>,
    <<"Nevada", "NV">>, <<"New Hampshire", "NH">>, <<"New Jersey", "NJ">>,
    <<"New Mexico", "NM">>, <<"New York", "NY">>, <<"North Carolina", "NC">>,
    <<"North Dakota", "ND">>, <<"Ohio", "OH">>, <<"Oklahoma", "OK">>,
    <<"Oregon", "OR">>, <<"Pennsylvania", "PA">>, <<"Rhode Island", "RI">>,
    <<"South Carolina", "SC">>, <<"South Dakota", "SD">>, <<"Tennessee", "TN">>,
    <<"Texas", "TX">>, <<"Utah", "UT">>, <<"Vermont", "VT">>,
    <<"Virginia", "VA">>, <<"Washington", "WA">>, <<"West Virginia", "WV">>,
    <<"Wisconsin", "WI">>, <<"Wyoming", "WY">> >>

\* Series.map(state_mapping): a name that is no key maps to NaN
StateAbbr(cell) ==
    IF NotNa(cell) /\ \E i \in 1..Len(state_mapping) : state_mapping[i][1] = cell.v
    THEN Val(state_mapping[CHOOSE i \in 1..Len(state_mapping) :
                               state_mapping[i][1] = cell.v][2])
    ELSE NULL


(***************************************************************************)
(* State of one run of ALICETigerIntegrator.run_integration.               *)
(***************************************************************************)
VARIABLES
    pc,                  \* position in run_integration
    counties_gdf,        \* the county boundaries (GEOID cleaned once formatted)
    alice_df,            \* the ALICE rows (FIPS added once formatted)
    valid_fips_alice,    \* rows with len(FIPS) == 5
    missing_fips_alice,  \* rows with len(FIPS) != 5, State_Abbr added
    merged_gdf,          \* the joined frame
    row_i,               \* number of missing_fips_alice rows already iterated
    stats,               \* result of create_summary_stats
    raw_id,              \* an identifier cell handed to the clean-up alone
    fips_out,            \* what the clean-up made of raw_id
    sheet,               \* a sheet of a state workbook, as read by read_excel
    cleaned,             \* what clean_county_data / clean_subcounty_data returned
    excel_files,         \* the workbooks, in the order glob lists them
    file_i,              \* number of workbooks process_all_files has been through
    master_county,       \* ALICEDataConsolidator.master_county
    master_subcounty,    \* ALICEDataConsolidator.master_subcounty
    processing_stats,    \* ALICEDataConsolidator.processing_stats
    summary_stats,       \* result of create_summary_statistics
    alice_gdf,           \* the choropleth frame load_alice_tiger_data reads
    census_df,           \* the frame get_census_demographics returns
    integrated_gdf,      \* result of integrate_all_data
    enhanced_stats,      \* result of _generate_enhanced_stats
    master_county_csv,   \* county_df of create_clean_datasets
    master_subcounty_csv,\* subcounty_df of create_clean_datasets
    clean_data           \* the tables create_clean_datasets writes

joinVars == <<pc, counties_gdf, alice_df, valid_fips_alice, missing_fips_alice,
              merged_gdf, row_i, stats>>
fipsVars == <<raw_id, fips_out>>
sheetVars == <<sheet, cleaned>>
batchVars == <<excel_files, file_i, master_county, master_subcounty,
               processing_stats, summary_stats>>
censusVars == <<alice_gdf, census_df, integrated_gdf, enhanced_stats>>
cleanerVars == <<master_county_csv, master_subcounty_csv, clean_data>>
vars == <<joinVars, fipsVars, sheetVars, batchVars, censusVars, cleanerVars>>

\* alice_df[alice_df['FIPS'].str.len() == 5] (valid = TRUE) and
\* alice_df[alice_df['FIPS'].str.len() != 5] (valid = FALSE): boolean-mask
\* selection, rows kept in order
RECURSIVE SelectByFips(_, _)
SelectByFips(q, valid) ==
    IF q = <<>> THEN <<>>
    ELSE (IF ValidFips(Head(q).FIPS) = valid THEN <<Head(q)>> ELSE <<>>)
         \o SelectByFips(Tail(q), valid)

RECURSIVE Concat(_)
Concat(qq) == IF qq = <<>> THEN <<>> ELSE Head(qq) \o Concat(Tail(qq))

Init ==
    /\ pc = "load"
    /\ counties_gdf \in Shapefiles
    /\ \E n \in 0..MaxAttrs : alice_df \in [1..n -> AliceRows]
    /\ valid_fips_alice = <<>>
    /\ missing_fips_alice = <<>>
    /\ merged_gdf = <<>>
    /\ row_i = 0
    /\ stats = NULL
    /\ raw_id = NULL /\ fips_out = NULL
    /\ sheet = NULL /\ cleaned = NULL
    /\ excel_files = <<>> /\ file_i = 0
    /\ master_county = NULL /\ master_subcounty = NULL
    /\ processing_stats = NULL /\ summary_stats = NULL
    /\ alice_gdf = <<>> /\ census_df = <<>>
    /\ integrated_gdf = NULL /\ enhanced_stats = NULL
    /\ master_county_csv = <<>> /\ master_subcounty_csv = <<>>
    /\ clean_data = NULL

\* lines 76-85: format the codes, split the ALICE rows on len(FIPS)
WithFips(a) == [GEO_id2 |-> a.GEO_id2, FIPS |-> CleanFips(a.GEO_id2),
                State |-> a.State, County |-> a.County, m |-> a.m]

WithGeoid(c) == [c EXCEPT !.GEOID = CleanGeoid(c.GEOID)]

FormatCodes ==
    /\ pc = "load"
    /\ counties_gdf' = [i \in 1..Len(counties_gdf) |-> WithGeoid(counties_gdf[i])]
    /\ alice_df' = [i \in 1..Len(alice_df) |-> WithFips(alice_df[i])]
    /\ valid_fips_alice' = SelectByFips(alice_df', TRUE)
    /\ missing_fips_alice' = SelectByFips(alice_df', FALSE)
    /\ pc' = "join"
    /\ UNCHANGED <<merged_gdf, row_i, stats, fipsVars, sheetVars, batchVars, censusVars, cleanerVars>>

\* lines 87-93: counties_gdf.merge(valid_fips_alice, left_on='GEOID',
\* right_on='FIPS', how='left'): every county row, once per ALICE row with
\* its code, or once with empty ALICE columns when there is none
JoinedRow(c, a) ==
    [GEOID |-> c.GEOID, NAME |-> c.NAME, STUSPS |-> c.STUSPS,
     geometry |-> c.geometry, GEO_id2 |-> Val(a.GEO_id2), FIPS |-> Val(a.FIPS),
     State |-> a.State, County |-> a.County, m |-> a.m]

UnjoinedRow(c) ==
    [GEOID |-> c.GEOID, NAME |-> c.NAME, STUSPS |-> c.STUSPS,
     geometry |-> c.geometry, GEO_id2 |-> NULL, FIPS |-> NULL,
     State |-> NULL, County |-> NULL, m |-> NoMetrics]

\* the join keyed on the identifier as printed, not on the cleaned code
RECURSIVE RowsWithRawId(_, _)
RowsWithRawId(q, code) ==
    IF q = <<>> THEN <<>>
    ELSE (IF AsStr(Head(q).GEO_id2) = code THEN <<Head(q)>> ELSE <<>>)
         \o RowsWithRawId(Tail(q), code)

RECURSIVE RowsWithFips(_, _)
RowsWithFips(q, code) ==
    IF q = <<>> THEN <<>>
    ELSE (IF Head(q).FIPS = code THEN <<Head(q)>> ELSE <<>>)
         \o RowsWithFips(Tail(q), code)

LeftMergeOne(c, right) ==
    LET hits == RowsWithFips(right, c.GEOID)
    IN  IF hits = <<>> THEN <<UnjoinedRow(c)>>
        ELSE [i \in 1..Len(hits) |-> JoinedRow(c, hits[i])]

LeftMerge(left, right) ==
    Concat([i \in 1..Len(left) |-> LeftMergeOne(left[i], right)])

PrimaryJoin ==
    /\ pc = "join"
    /\ merged_gdf' = LeftMerge(counties_gdf, valid_fips_alice)
    /\ pc' = "secondary"
    /\ UNCHANGED <<counties_gdf, alice_df, valid_fips_alice, missing_fips_alice,
                   row_i, stats, fipsVars, sheetVars, batchVars, censusVars, cleanerVars>>

\* lines 161-164: the counties with the row's state abbreviation and the
\* row's county name, compared in lower case
RECURSIVE CountyMatch(_, _, _)
CountyMatch(q, abbr, county) ==
    IF q = <<>> THEN <<>>
    ELSE (IF Head(q).STUSPS = abbr /\ Lower(Head(q).NAME) = Lower(county)
          THEN <<Head(q)>> ELSE <<>>)
         \o CountyMatch(Tail(q), abbr, county)

\* the name lookup used whenever it finds a county, taking the first
AcceptAnyMatch(county_match) == Len(county_match) >= 1

\* line 166: the name lookup is used when it finds one county
AcceptMatch(county_match) == Len(county_match) = 1

\* the fill that copies every metric cell of the ALICE row, NaN included
FillRowAll(row, alice_row) ==
    [row EXCEPT !.m = alice_row.m,
                !.State = alice_row.State,
                !.County = alice_row.County]

\* lines 170-175 on one row of merged_gdf selected by the mask
FillRow(row, alice_row) ==
    [row EXCEPT !.m = [col \in MetricSet |->
                          IF NotNa(alice_row.m[col]) THEN alice_row.m[col]
                          ELSE row.m[col]],
                !.State = alice_row.State,
                !.County = alice_row.County]

\* lines 156-176, one iteration of the loop over missing_fips_alice
SecondaryJoinedFrame(frame, alice_row) ==
    LET abbr == StateAbbr(alice_row.State)
    IN  IF IsNa(alice_row.County) \/ IsNa(abbr) THEN frame
        ELSE LET county_match == CountyMatch(counties_gdf, abbr.v, alice_row.County.v)
             IN  IF AcceptMatch(county_match)
                 THEN LET geoid == county_match[1].GEOID
                      IN  [i \in 1..Len(frame) |->
                             IF frame[i].GEOID = geoid
                             THEN FillRow(frame[i], alice_row)
                             ELSE frame[i]]
                 ELSE frame

SecondaryJoinRow ==
    /\ pc = "secondary"
    /\ row_i < Len(missing_fips_alice)
    /\ merged_gdf' = SecondaryJoinedFrame(merged_gdf, missing_fips_alice[row_i + 1])
    /\ row_i' = row_i + 1
    /\ UNCHANGED <<pc, counties_gdf, alice_df, valid_fips_alice,
                   missing_fips_alice, stats, fipsVars, sheetVars, batchVars, censusVars, cleanerVars>>

\* lines 178-184: merged_gdf.drop(columns=['FIPS']) and return
DropFips(row) ==
    [GEOID |-> row.GEOID, NAME |-> row.NAME, STUSPS |-> row.STUSPS,
     geometry |-> row.geometry, GEO_id2 |-> row.GEO_id2,
     State |-> row.State, County |-> row.County, m |-> row.m]

ReturnMerged ==
    /\ pc = "secondary"
    /\ row_i = Len(missing_fips_alice)
    /\ merged_gdf' = [i \in 1..Len(merged_gdf) |-> DropFips(merged_gdf[i])]
    /\ pc' = "choropleth"
    /\ UNCHANGED <<counties_gdf, alice_df, valid_fips_alice, missing_fips_alice,
                   row_i, stats, fipsVars, sheetVars, batchVars, censusVars, cleanerVars>>

\* create_summary_stats (lines 235-252)
RECURSIVE SumCol(_, _)
\* Series.sum(): NaN counts as 0
SumCol(frame, col) ==
    IF frame = <<>> THEN 0
    ELSE (IF NotNa(Head(frame).m[col]) THEN Head(frame).m[col].v ELSE 0)
         + SumCol(Tail(frame), col)

\* Series.notna().sum()
CountCol(frame, col) ==
    Cardinality({i \in 1..Len(frame) : NotNa(frame[i].m[col])})

\* Series.mean(): the sum over the count of the values that are not NaN, as
\* the fraction <<sum, count>>; NaN when there is no such value
MeanCol(frame, col) ==
    IF CountCol(frame, col) = 0 THEN NULL
    ELSE Val(<<SumCol(frame, col), CountCol(frame, col)>>)

SummaryStats(gdf) ==
    [total_counties |-> Len(gdf),
     counties_with_alice_data |-> CountCol(gdf, "ALICE_Percentage"),
     avg_alice_percentage |-> MeanCol(gdf, "ALICE_Percentage"),
     avg_poverty_percentage |-> MeanCol(gdf, "Poverty_Percentage"),
     total_households |-> SumCol(gdf, "Households"),
     data_coverage_percent |->
         <<CountCol(gdf, "ALICE_Percentage") * 100, Len(gdf)>>]

CreateSummaryStats ==
    /\ pc = "choropleth"
    /\ stats' = SummaryStats(merged_gdf)
    /\ pc' = "done"
    /\ UNCHANGED <<counties_gdf, alice_df, valid_fips_alice, missing_fips_alice,
                   merged_gdf, row_i, fipsVars, sheetVars, batchVars, censusVars, cleanerVars>>

Next == \/ FormatCodes
        \/ PrimaryJoin
        \/ SecondaryJoinRow
        \/ ReturnMerged
        \/ CreateSummaryStats

Spec == Init /\ [][Next]_vars

(***************************************************************************)
(* The identifier clean-up on its own: one cell in, one code out.          *)
(***************************************************************************)
FipsChars == {"0", "7", "A", "."}

RECURSIVE TextsOfLen(_)
TextsOfLen(n) == IF n = 0 THEN {<<>>}
                 ELSE { Append(t, c) : t \in TextsOfLen(n - 1), c \in FipsChars }

\* the cells of a 'GEO id2' column: text of 1..MaxRawLen characters and
\* whole numbers read as int or as float
RawCells == { Txt(t) : t \in UNION { TextsOfLen(n) : n \in 1..MaxRawLen } }
            \cup { IntV(n) : n \in {0, 9, 6037, 48201, 123456} }
            \cup { FloatV(n) : n \in {0, 9, 6037, 48201, 123456} }

InitFips ==
    /\ raw_id \in RawCells
    /\ fips_out = NULL
    /\ pc = "idle"
    /\ counties_gdf = <<>> /\ alice_df = <<>>
    /\ valid_fips_alice = <<>> /\ missing_fips_alice = <<>>
    /\ merged_gdf = <<>> /\ row_i = 0 /\ stats = NULL
    /\ sheet = NULL /\ cleaned = NULL
    /\ excel_files = <<>> /\ file_i = 0
    /\ master_county = NULL /\ master_subcounty = NULL
    /\ processing_stats = NULL /\ summary_stats = NULL
    /\ alice_gdf = <<>> /\ census_df = <<>>
    /\ integrated_gdf = NULL /\ enhanced_stats = NULL
    /\ master_county_csv = <<>> /\ master_subcounty_csv = <<>>
    /\ clean_data = NULL

\* alice_tiger_integration.py lines 78, 81-82: the code and the frame the
\* row is put in
TigerFips ==
    /\ fips_out = NULL
    /\ fips_out' = Val([by |-> "tiger", FIPS |-> CleanFips(raw_id),
                        valid |-> ValidFips(CleanFips(raw_id))])
    /\ UNCHANGED <<raw_id, joinVars, sheetVars, batchVars, censusVars, cleanerVars>>

\* alice_census_integration.py lines 137-139: the code, and whether the row
\* is kept (len(fips) != 5: continue)
MockFips(v) == ZFill(SplitDot0(AsStr(v)), FipsWidth)

CensusFips ==
    /\ fips_out = NULL
    /\ fips_out' = Val([by |-> "census", FIPS |-> MockFips(raw_id),
                        valid |-> ~(Len(MockFips(raw_id)) # FipsWidth)])
    /\ UNCHANGED <<raw_id, joinVars, sheetVars, batchVars, censusVars, cleanerVars>>

RECURSIVE ParseInt(_)
\* the number a text of digits is read as
ParseInt(s) ==
    IF s = <<>> THEN 0
    ELSE 10 * ParseInt(SubSeq(s, 1, Len(s) - 1))
         + (CHOOSE d \in 0..9 : DigitChars[d + 1] = s[Len(s)])

\* what read_csv makes of a code written out as a 'GEO id2' cell: a column
\* of digits is read as int or float (the leading zeros go), any other text
\* stays text; a column read with dtype=str stays text too
ReadBack(f) ==
    {Txt(f)} \cup (IF f # <<>> /\ AllDigits(f)
                   THEN {IntV(ParseInt(f)), FloatV(ParseInt(f))} ELSE {})

\* the clean-up applied to its own result: load_alice_data line 35 writes
\* FIPS, create_county_choropleth_data line 78 (or census line 137) cleans
\* what was stored
RecleanFips ==
    /\ fips_out # NULL
    /\ "again" \notin DOMAIN fips_out.v
    /\ \E cell \in ReadBack(fips_out.v.FIPS) :
          fips_out' = Val([by |-> fips_out.v.by, FIPS |-> fips_out.v.FIPS,
                           valid |-> fips_out.v.valid,
                           again |-> IF fips_out.v.by = "tiger"
                                     THEN CleanFips(cell) ELSE MockFips(cell)])
    /\ UNCHANGED <<raw_id, joinVars, sheetVars, batchVars, censusVars, cleanerVars>>

NextFips == TigerFips \/ CensusFips \/ RecleanFips

SpecFips == InitFips /\ [][NextFips]_vars

(***************************************************************************)
(* clean_county_data / clean_subcounty_data (alice_data_consolidator.py).  *)
(* A frame is [cols, rows]: the column names and the rows, each row a      *)
(* function from the columns to cells.  A percentage cell is NULL (NaN),   *)
(* Inf, or Val(h) with h the value in hundredths (12.50 is Val(1250)).     *)
(***************************************************************************)
Inf == [inf |-> TRUE]

CountCols == <<"Households", "Poverty Households", "ALICE Households",
               "Above ALICE Households">>
CountColSet == {CountCols[i] : i \in 1..Len(CountCols)}

county_expected_cols ==
    <<"State", "Year", "GEO id2", "GEO display_label", "County", "State Abbr",
      "Households", "Poverty Households", "ALICE Households",
      "Above ALICE Households", "ALICE Threshold - HH under 65",
      "ALICE Threshold - HH 65 years and over">>

subcounty_expected_cols ==
    <<"State", "Year", "Type", "GEO id2", "GEO display_label", "Households",
      "Poverty Households", "ALICE Households", "Above ALICE Households",
      "County">>

\* df.dropna(how='all'): a row goes when every cell of it is NaN
DropNaAll(rows) ==
    LET RECURSIVE Keep(_)
        Keep(q) == IF q = <<>> THEN <<>>
                   ELSE (IF \E c \in DOMAIN Head(q) : NotNa(Head(q)[c])
                         THEN <<Head(q)>> ELSE <<>>) \o Keep(Tail(q))
    IN  Keep(rows)

\* [col for col in expected_cols if col in df.columns]
ExistingCols(expected, cols) ==
    {expected[i] : i \in 1..Len(expected)} \cap cols

\* round-half-even of num / den to a whole number (numpy rint), num >= 0, den > 0
RoundHalfEven(num, den) ==
    LET q == num \div den
        r == num % den
    IN  IF 2 * r < den THEN q
        ELSE IF 2 * r > den THEN q + 1
        ELSE IF q % 2 = 0 THEN q ELSE q + 1

\* the share left as a fraction of one, not multiplied by 100
PercentageAsFraction(numerator, households) ==
    IF IsNa(numerator) \/ IsNa(households) THEN NULL
    ELSE IF households.v = 0 THEN (IF numerator.v = 0 THEN NULL ELSE Inf)
    ELSE Val(RoundHalfEven(numerator.v * 100, households.v))

\* (df[numerator] / df['Households'] * 100).round(2) on one row: NaN when a
\* cell is NaN or for 0 / 0, inf for a positive count over 0 households
Percentage(numerator, households) ==
    IF IsNa(numerator) \/ IsNa(households) THEN NULL
    ELSE IF households.v = 0 THEN (IF numerator.v = 0 THEN NULL ELSE Inf)
    ELSE Val(RoundHalfEven(numerator.v * 10000, households.v))

\* df['Poverty Households'] + df['ALICE Households'] on one row
BelowTotal(poverty, alice) ==
    IF IsNa(poverty) \/ IsNa(alice) THEN NULL ELSE Val(poverty.v + alice.v)

\* line 102 / 129: the percentages are added when all four count columns exist
HasCountCols(cols) == CountColSet \subseteq cols

Calculated(row) ==
    [Poverty_Percentage |-> Percentage(row["Poverty Households"], row["Households"]),
     ALICE_Percentage |-> Percentage(row["ALICE Households"], row["Households"]),
     Above_ALICE_Percentage |->
         Percentage(row["Above ALICE Households"], row["Households"]),
     Below_ALICE_Threshold_Total |->
         BelowTotal(row["Poverty Households"], row["ALICE Households"]),
     Below_ALICE_Threshold_Percentage |->
         Percentage(BelowTotal(row["Poverty Households"], row["ALICE Households"]),
                    row["Households"])]

Metadata(state_name) ==
    [Data_Source_File |-> Val(state_name), Processing_Date |-> Val("today")]

CleanRow(row, keep, state_name) ==
    LET kept == [c \in keep |-> row[c]]
    IN  (IF HasCountCols(keep) THEN kept @@ Calculated(kept) ELSE kept)
        @@ Metadata(state_name)

CleanData(df, expected, state_name) ==
    LET rows == DropNaAll(df.rows)
        keep == ExistingCols(expected, df.cols)
    IN  [i \in 1..Len(rows) |-> CleanRow(rows[i], keep, state_name)]

\* lines 87-113
clean_county_data(df, state_name) ==
    CleanData(df, county_expected_cols, state_name)

\* lines 115-140
clean_subcounty_data(df, state_name) ==
    CleanData(df, subcounty_expected_cols, state_name)

(***************************************************************************)
(* One sheet through the clean-up.                                         *)
(***************************************************************************)
CountCells == {NULL} \cup { Val(n) : n \in 0..MaxCount }

CountRow(h, p, a, ab) ==
    [c \in CountColSet |->
        CASE c = "Households" -> Val(h)
          [] c = "Poverty Households" -> Val(p)
          [] c = "ALICE Households" -> Val(a)
          [] c = "Above ALICE Households" -> Val(ab)]

\* rows with larger counts: shares that need rounding, shares over 100
LargeRows == { CountRow(1000, 150, 300, 550), CountRow(800, 1, 3, 796),
               CountRow(3, 1, 1, 1), CountRow(3, 2, 2, 2), CountRow(0, 5, 0, 7) }

\* the header rows met: all the count columns, some of them, and a sheet
\* with a column ("Notes") that is in neither list of expected columns
ColumnSets == { CountColSet,
                CountColSet \ {"ALICE Households"},
                CountColSet \ {"Above ALICE Households"},
                {"Households", "Poverty Households"},
                {"Households", "Notes"} }

SheetRows(cols) ==
    [cols -> CountCells]
    \cup { [c \in cols |-> IF c \in DOMAIN r THEN r[c] ELSE NULL] : r \in LargeRows }

InitSheet ==
    /\ \E cols \in ColumnSets : \E n \in 0..MaxSheetRows :
          \E rows \in [1..n -> SheetRows(cols)] :
              sheet = [cols |-> cols, rows |-> rows]
    /\ cleaned = NULL
    /\ pc = "idle"
    /\ counties_gdf = <<>> /\ alice_df = <<>>
    /\ valid_fips_alice = <<>> /\ missing_fips_alice = <<>>
    /\ merged_gdf = <<>> /\ row_i = 0 /\ stats = NULL
    /\ raw_id = NULL /\ fips_out = NULL
    /\ excel_files = <<>> /\ file_i = 0
    /\ master_county = NULL /\ master_subcounty = NULL
    /\ processing_stats = NULL /\ summary_stats = NULL
    /\ alice_gdf = <<>> /\ census_df = <<>>
    /\ integrated_gdf = NULL /\ enhanced_stats = NULL
    /\ master_county_csv = <<>> /\ master_subcounty_csv = <<>>
    /\ clean_data = NULL

\* process_single_file lines 63-64
CleanCounty ==
    /\ cleaned = NULL
    /\ cleaned' = Val([kind |-> "County",
                       rows |-> clean_county_data(sheet, "Texas")])
    /\ UNCHANGED <<sheet, joinVars, fipsVars, batchVars, censusVars, cleanerVars>>

\* process_single_file lines 70-71
CleanSubcounty ==
    /\ cleaned = NULL
    /\ cleaned' = Val([kind |-> "Subcounty",
                       rows |-> clean_subcounty_data(sheet, "Texas")])
    /\ UNCHANGED <<sheet, joinVars, fipsVars, batchVars, censusVars, cleanerVars>>

NextSheet == CleanCounty \/ CleanSubcounty

SpecSheet == InitSheet /\ [][NextSheet]_vars

(***************************************************************************)
(* process_all_files over the workbooks of the input directory             *)
(* (alice_data_consolidator.py lines 34-77) and create_summary_statistics  *)
(* (lines 142-167).  A workbook is [name, readable, sheets]: the words of  *)
(* its file name, whether pd.ExcelFile opens it, and its sheets by name.   *)
(* A master frame is [cols, rows].                                         *)
(***************************************************************************)
\* a cell that holds text where a count is expected
TextCell == [text |-> "N/A"]
IsText(cell) == "text" \in DOMAIN cell

BatchCols == CountColSet \cup {"State"}

BatchRow(state, h, p, a, ab) ==
    [c \in BatchCols |->
        CASE c = "State" -> Val(state)
          [] c = "Households" -> h
          [] c = "Poverty Households" -> p
          [] c = "ALICE Households" -> a
          [] c = "Above ALICE Households" -> ab]

\* a sheet with the given columns of the given rows
Frame(cols, rows) ==
    [cols |-> cols,
     rows |-> [i \in 1..Len(rows) |-> [c \in cols |-> rows[i][c]]]]

NoSheets == [x \in {} |-> x]

FileName(words) == <<"2025", "ALICE">> \o words \o <<"Data", "Sheet">>

Alabama ==
    [name |-> FileName(<<"Alabama">>), readable |-> TRUE,
     sheets |->
        [County |-> Frame(BatchCols,
                          <<BatchRow("Alabama", Val(100), Val(10), Val(20), Val(70))>>),
         Subcounty |-> Frame(BatchCols,
                          <<BatchRow("Alabama", Val(40), Val(4), Val(8), Val(28))>>)]]

\* a workbook that pd.ExcelFile cannot open
Texas ==
    [name |-> FileName(<<"Texas">>), readable |-> FALSE, sheets |-> NoSheets]

\* a County sheet without the 'ALICE Households' column
Ohio ==
    [name |-> FileName(<<"Ohio">>), readable |-> TRUE,
     sheets |->
        [County |-> Frame(BatchCols \ {"ALICE Households"},
                          <<BatchRow("Ohio", Val(50), Val(5), NULL, Val(45))>>)]]

\* a Subcounty sheet with text in a count cell
Utah ==
    [name |-> FileName(<<"Utah">>), readable |-> TRUE,
     sheets |->
        [County |-> Frame(BatchCols,
                          <<BatchRow("Utah", Val(200), Val(20), Val(60), Val(120))>>),
         Subcounty |-> Frame(BatchCols,
                          <<BatchRow("Utah", TextCell, Val(1), Val(1), Val(1))>>)]]

\* a County sheet whose counts are all blank
NewYork ==
    [name |-> FileName(<<"New", "York">>), readable |-> TRUE,
     sheets |->
        [County |-> Frame(BatchCols,
                          <<BatchRow("New York", NULL, NULL, NULL, NULL)>>)]]

Workbooks == {Alabama, Texas, Ohio, Utah, NewYork}

\* the orders in which a set of workbooks can be listed
Orderings(S) ==
    {f \in [1..Cardinality(S) -> S] :
        \A i, j \in 1..Cardinality(S) : f[i] = f[j] => i = j}

\* extract_state_name (lines 79-85) on the words of the name between '_'
extract_state_name(words) ==
    IF Len(words) >= 3 THEN SubSeq(words, 3, Len(words) - 2) ELSE words

EmptyFrame == [cols |-> {}, rows |-> <<>>]

\* lines 26-32
InitialStats ==
    [files_processed |-> 0, files_failed |-> 0, total_counties |-> 0,
     total_subcounty_areas |-> 0, failed_files |-> <<>>]

\* the state of the consolidator after __init__ (lines 24-32)
InitialConsolidator ==
    [master_county |-> EmptyFrame, master_subcounty |-> EmptyFrame,
     processing_stats |-> InitialStats]

\* the columns of the frame clean_*_data returns
CleanedCols(df, expected) ==
    LET keep == ExistingCols(expected, df.cols)
    IN  keep
        \cup (IF HasCountCols(keep) THEN DOMAIN Calculated([c \in keep |-> NULL])
              ELSE {})
        \cup DOMAIN Metadata(<<>>)

\* the division of lines 103-107 / 130-134 raises TypeError on a text cell
CleanRaises(df, expected) ==
    /\ HasCountCols(ExistingCols(expected, df.cols))
    /\ \E i \in 1..Len(df.rows) : \E c \in CountColSet : IsText(df.rows[i][c])

CleanedFrame(df, expected, state_name) ==
    [cols |-> CleanedCols(df, expected),
     rows |-> CleanData(df, expected, state_name)]

\* pd.concat([a, b], ignore_index=True): the rows of a, then those of b, over
\* the columns of both; a cell of a column the row's frame lacks is NaN
ConcatFrames(a, b) ==
    LET cols == a.cols \cup b.cols
        Wide(row) == [c \in cols |-> IF c \in DOMAIN row THEN row[c] ELSE NULL]
    IN  [cols |-> cols,
         rows |-> [i \in 1..Len(a.rows) |-> Wide(a.rows[i])]
                  \o [i \in 1..Len(b.rows) |-> Wide(b.rows[i])]]

\* the County sheet appended without adding its rows to total_counties
AfterCountyUncounted(c, file) ==
    IF "County" \notin DOMAIN file.sheets THEN [c EXCEPT !.raised = FALSE]
    ELSE IF CleanRaises(file.sheets.County, county_expected_cols)
    THEN [c EXCEPT !.raised = TRUE]
    ELSE LET county_df == CleanedFrame(file.sheets.County, county_expected_cols,
                                       extract_state_name(file.name))
         IN  [c EXCEPT !.raised = FALSE,
                       !.master_county = ConcatFrames(@, county_df)]

\* lines 62-66, reached when the workbook opened: the County sheet
AfterCounty(c, file) ==
    IF "County" \notin DOMAIN file.sheets THEN [c EXCEPT !.raised = FALSE]
    ELSE IF CleanRaises(file.sheets.County, county_expected_cols)
    THEN [c EXCEPT !.raised = TRUE]
    ELSE LET county_df == CleanedFrame(file.sheets.County, county_expected_cols,
                                       extract_state_name(file.name))
         IN  [c EXCEPT !.raised = FALSE,
                       !.master_county = ConcatFrames(@, county_df),
                       !.processing_stats.total_counties = @ + Len(county_df.rows)]

\* lines 69-73: the Subcounty sheet
AfterSubcounty(c, file) ==
    IF "Subcounty" \notin DOMAIN file.sheets THEN c
    ELSE IF CleanRaises(file.sheets.Subcounty, subcounty_expected_cols)
    THEN [c EXCEPT !.raised = TRUE]
    ELSE LET subcounty_df == CleanedFrame(file.sheets.Subcounty,
                                          subcounty_expected_cols,
                                          extract_state_name(file.name))
         IN  [c EXCEPT !.master_subcounty = ConcatFrames(@, subcounty_df),
                       !.processing_stats.total_subcounty_areas =
                            @ + Len(subcounty_df.rows)]

\* process_single_file (lines 52-77): the consolidator afterwards, and
\* whether the call raised
process_single_file(c, file) ==
    LET start == [master_county |-> c.master_county,
                  master_subcounty |-> c.master_subcounty,
                  processing_stats |-> c.processing_stats,
                  raised |-> FALSE]
    IN  IF ~file.readable THEN [start EXCEPT !.raised = TRUE]
        ELSE LET county == AfterCounty(start, file)
             IN  IF county.raised THEN county ELSE AfterSubcounty(county, file)

\* the except branch that forgets the name of the workbook
RecordFailureNoName(processing, file) ==
    [processing EXCEPT !.files_failed = @ + 1]

\* lines 45-48
RecordFailure(processing, file) ==
    [processing EXCEPT !.files_failed = @ + 1,
                       !.failed_files = Append(@, file.name)]

\* line 44
RecordSuccess(processing) ==
    [processing EXCEPT !.files_processed = @ + 1]

\* lines 42-48: one turn of the loop of process_all_files
ProcessOne(c, file) ==
    LET r == process_single_file(c, file)
    IN  [master_county |-> r.master_county,
         master_subcounty |-> r.master_subcounty,
         processing_stats |-> IF r.raised THEN RecordFailure(r.processing_stats, file)
                              ELSE RecordSuccess(r.processing_stats)]

RECURSIVE ProcessAll(_, _)
\* lines 41-48 over a whole list
ProcessAll(files, c) ==
    IF files = <<>> THEN c ELSE ProcessAll(Tail(files), ProcessOne(c, Head(files)))

FileRaises(file) == process_single_file(InitialConsolidator, file).raised

\* Series.sum() of a column: NaN counts as 0
ColSum(frame, col) ==
    LET RECURSIVE Sum(_)
        Sum(q) == IF q = <<>> THEN 0
                  ELSE (IF "v" \in DOMAIN Head(q)[col] THEN Head(q)[col].v ELSE 0)
                       + Sum(Tail(q))
    IN  Sum(frame.rows)

ColCount(frame, col) ==
    Cardinality({i \in 1..Len(frame.rows) : NotNa(frame.rows[i][col])})

\* Series.mean() of a column as the fraction <<sum, count>> over the cells
\* that are not NaN: NaN without such a cell, inf with an inf among them
ColMean(frame, col) ==
    IF ColCount(frame, col) = 0 THEN NULL
    ELSE IF \E i \in 1..Len(frame.rows) : frame.rows[i][col] = Inf THEN Inf
    ELSE Val(<<ColSum(frame, col), ColCount(frame, col)>>)

\* the literal 0 of "... if col in columns else 0"
ZeroLiteral == Val(<<0, 1>>)

\* Series.nunique()
NUnique(frame, col) ==
    Cardinality({frame.rows[i][col] : i \in 1..Len(frame.rows)} \ {NULL})

MeanOrZero(frame, col) ==
    IF col \in frame.cols THEN ColMean(frame, col) ELSE ZeroLiteral

SumOrZero(frame, col) ==
    IF col \in frame.cols THEN ColSum(frame, col) ELSE 0

\* lines 147-154
CountyStats(mc) ==
    [total_counties |-> Len(mc.rows),
     total_states |-> NUnique(mc, "State"),
     total_households_county |-> SumOrZero(mc, "Households"),
     avg_poverty_percentage |-> MeanOrZero(mc, "Poverty_Percentage"),
     avg_alice_percentage |-> MeanOrZero(mc, "ALICE_Percentage"),
     avg_below_alice_threshold |-> MeanOrZero(mc, "Below_ALICE_Threshold_Percentage")]

\* lines 158-162; no sheet of the model has a Type column
SubcountyStats(ms) ==
    [total_subcounty_areas |-> Len(ms.rows),
     subcounty_types |-> NoSheets,
     total_households_subcounty |-> SumOrZero(ms, "Households")]

\* DataFrame.empty
IsEmpty(frame) == frame.rows = <<>> \/ frame.cols = {}

\* create_summary_statistics (lines 142-167)
create_summary_statistics(mc, ms, processing) ==
    (IF ~IsEmpty(mc) THEN [county |-> CountyStats(mc)] ELSE NoSheets)
    @@ (IF ~IsEmpty(ms) THEN [subcounty |-> SubcountyStats(ms)] ELSE NoSheets)
    @@ [processing |-> processing]

Consolidator ==
    [master_county |-> master_county, master_subcounty |-> master_subcounty,
     processing_stats |-> processing_stats]

InitBatch ==
    /\ \E S \in SUBSET Workbooks :
          /\ Cardinality(S) <= MaxFiles
          /\ excel_files \in Orderings(S)
    /\ file_i = 0
    /\ master_county = EmptyFrame
    /\ master_subcounty = EmptyFrame
    /\ processing_stats = InitialStats
    /\ summary_stats = NULL
    /\ pc = "idle"
    /\ counties_gdf = <<>> /\ alice_df = <<>>
    /\ valid_fips_alice = <<>> /\ missing_fips_alice = <<>>
    /\ merged_gdf = <<>> /\ row_i = 0 /\ stats = NULL
    /\ raw_id = NULL /\ fips_out = NULL
    /\ sheet = NULL /\ cleaned = NULL
    /\ alice_gdf = <<>> /\ census_df = <<>>
    /\ integrated_gdf = NULL /\ enhanced_stats = NULL
    /\ master_county_csv = <<>> /\ master_subcounty_csv = <<>>
    /\ clean_data = NULL

\* lines 41-44: the workbook went through
ProcessFile ==
    /\ file_i < Len(excel_files)
    /\ ~process_single_file(Consolidator, excel_files[file_i + 1]).raised
    /\ LET c == ProcessOne(Consolidator, excel_files[file_i + 1])
       IN  /\ master_county' = c.master_county
           /\ master_subcounty' = c.master_subcounty
           /\ processing_stats' = c.processing_stats
    /\ file_i' = file_i + 1
    /\ UNCHANGED <<excel_files, summary_stats, joinVars, fipsVars, sheetVars, censusVars, cleanerVars>>

\* lines 45-48: process_single_file raised
ProcessFileFailed ==
    /\ file_i < Len(excel_files)
    /\ process_single_file(Consolidator, excel_files[file_i + 1]).raised
    /\ LET c == ProcessOne(Consolidator, excel_files[file_i + 1])
       IN  /\ master_county' = c.master_county
           /\ master_subcounty' = c.master_subcounty
           /\ processing_stats' = c.processing_stats
    /\ file_i' = file_i + 1
    /\ UNCHANGED <<excel_files, summary_stats, joinVars, fipsVars, sheetVars, censusVars, cleanerVars>>

\* generate_report / save_master_files call create_summary_statistics once
\* the loop is over
CreateSummaryStatistics ==
    /\ file_i = Len(excel_files)
    /\ summary_stats = NULL
    /\ summary_stats' = Val(create_summary_statistics(master_county, master_subcounty,
                                                      processing_stats))
    /\ UNCHANGED <<excel_files, file_i, master_county, master_subcounty,
                   processing_stats, joinVars, fipsVars, sheetVars, censusVars, cleanerVars>>

NextBatch == ProcessFile \/ ProcessFileFailed \/ CreateSummaryStatistics

SpecBatch == InitBatch /\ [][NextBatch]_vars

(***************************************************************************)
(* integrate_all_data and _generate_enhanced_stats                         *)
(* (alice_census_integration.py lines 181-211, 263-292).  Of the joined    *)
(* frame the model keeps the columns the derived metrics read and write;   *)
(* the other demographic columns are carried along unchanged by the code.  *)
(* Population_Per_Household is held in hundredths, percentages too.        *)
(***************************************************************************)
CountyCodes == << <<"4", "8", "2", "0", "1">>, <<"0", "5", "1", "3", "9">> >>

\* rows of alice_counties_choropleth.geojson
ChoroplethRows ==
    { [GEOID |-> CountyCodes[k], Households |-> h,
       ALICE_Percentage |-> pp[1], Poverty_Percentage |-> pp[2]] :
         k \in 1..Len(CountyCodes),
         h \in {NULL, Val(0), Val(40)},
         pp \in { <<NULL, NULL>>, <<Val(2550), Val(1000)>> } }

\* what the Census API (or the mock) gives for one county: no row, or a row
\* whose Total_Population is NaN (to_numeric, errors='coerce'), 0 or 100
PopulationCells == {NULL, Val(0), Val(100)}

RECURSIVE CensusFrames(_)
\* the census frames over the first k county codes, at most one row a county
CensusFrames(k) ==
    IF k = 0 THEN {<<>>}
    ELSE LET rest == CensusFrames(k - 1)
         IN  rest \cup { Append(f, [FIPS |-> CountyCodes[k], Total_Population |-> p]) :
                           f \in rest, p \in PopulationCells }

\* lines 193-198: alice_gdf.merge(census_df, left_on='GEOID',
\* right_on='FIPS', how='left') on one row of alice_gdf
CensusMergeOne(a, right) ==
    LET hits == SelectSeq(right, LAMBDA r : r.FIPS = a.GEOID)
        Row(pop, fips) ==
            [GEOID |-> a.GEOID, Households |-> a.Households,
             ALICE_Percentage |-> a.ALICE_Percentage,
             Poverty_Percentage |-> a.Poverty_Percentage,
             FIPS |-> fips, Total_Population |-> pop]
    IN  IF hits = <<>> THEN <<Row(NULL, NULL)>>
        ELSE [i \in 1..Len(hits) |->
                 Row(hits[i].Total_Population, Val(hits[i].FIPS))]

CensusMerge(left, right) ==
    Concat([i \in 1..Len(left) |-> CensusMergeOne(left[i], right)])

\* line 201: (Total_Population / Households).round(2), in hundredths
PerHousehold(population, households) ==
    IF IsNa(population) \/ IsNa(households) THEN NULL
    ELSE IF households.v = 0 THEN (IF population.v = 0 THEN NULL ELSE Inf)
    ELSE Val(RoundHalfEven(population.v * 100, households.v))

\* lines 202-203: (Total_Population * percentage / 100).round(0)
PopulationShare(population, percentage) ==
    IF IsNa(population) \/ IsNa(percentage) THEN NULL
    ELSE Val(RoundHalfEven(population.v * percentage.v, 10000))

\* lines 201-206 on one row: the derived metrics, FIPS dropped
Derived(row) ==
    [GEOID |-> row.GEOID, Households |-> row.Households,
     ALICE_Percentage |-> row.ALICE_Percentage,
     Poverty_Percentage |-> row.Poverty_Percentage,
     Total_Population |-> row.Total_Population,
     Population_Per_Household |-> PerHousehold(row.Total_Population, row.Households),
     ALICE_Population |-> PopulationShare(row.Total_Population, row.ALICE_Percentage),
     Poverty_Population |-> PopulationShare(row.Total_Population, row.Poverty_Percentage)]

IntegratedCols == {"GEOID", "Households", "ALICE_Percentage", "Poverty_Percentage",
                   "Total_Population", "Population_Per_Household",
                   "ALICE_Population", "Poverty_Population"}

\* integrate_all_data (lines 181-211)
integrate_all_data(gdf, census) ==
    LET merged == CensusMerge(gdf, census)
    IN  [cols |-> IntegratedCols,
         rows |-> [i \in 1..Len(merged) |-> Derived(merged[i])]]

\* _generate_enhanced_stats (lines 263-292), without the demographic means
generate_enhanced_stats(gdf) ==
    [total_counties |-> Len(gdf.rows),
     counties_with_alice_data |-> ColCount(gdf, "ALICE_Percentage"),
     counties_with_census_data |-> ColCount(gdf, "Total_Population"),
     total_population |-> ColSum(gdf, "Total_Population"),
     total_households |-> ColSum(gdf, "Households"),
     data_completeness_percent |->
         <<ColCount(gdf, "ALICE_Percentage") * 100, Len(gdf.rows)>>,
     avg_alice_percentage |-> ColMean(gdf, "ALICE_Percentage"),
     avg_poverty_percentage |-> ColMean(gdf, "Poverty_Percentage"),
     total_alice_population |-> ColSum(gdf, "ALICE_Population"),
     total_poverty_population |-> ColSum(gdf, "Poverty_Population")]

InitCensus ==
    /\ \E n \in 0..MaxAttrs : alice_gdf \in [1..n -> ChoroplethRows]
    /\ census_df \in CensusFrames(Len(CountyCodes))
    /\ integrated_gdf = NULL
    /\ enhanced_stats = NULL
    /\ pc = "idle"
    /\ counties_gdf = <<>> /\ alice_df = <<>>
    /\ valid_fips_alice = <<>> /\ missing_fips_alice = <<>>
    /\ merged_gdf = <<>> /\ row_i = 0 /\ stats = NULL
    /\ raw_id = NULL /\ fips_out = NULL
    /\ sheet = NULL /\ cleaned = NULL
    /\ excel_files = <<>> /\ file_i = 0
    /\ master_county = NULL /\ master_subcounty = NULL
    /\ processing_stats = NULL /\ summary_stats = NULL
    /\ master_county_csv = <<>> /\ master_subcounty_csv = <<>>
    /\ clean_data = NULL

\* run_integration line 300
IntegrateAllData ==
    /\ integrated_gdf = NULL
    /\ integrated_gdf' = Val(integrate_all_data(alice_gdf, census_df))
    /\ UNCHANGED <<alice_gdf, census_df, enhanced_stats,
                   joinVars, fipsVars, sheetVars, batchVars, cleanerVars>>

\* save_integrated_data line 250
GenerateEnhancedStats ==
    /\ integrated_gdf # NULL
    /\ enhanced_stats = NULL
    /\ enhanced_stats' = Val(generate_enhanced_stats(integrated_gdf.v))
    /\ UNCHANGED <<alice_gdf, census_df, integrated_gdf,
                   joinVars, fipsVars, sheetVars, batchVars, cleanerVars>>

NextCensus == IntegrateAllData \/ GenerateEnhancedStats

SpecCensus == InitCensus /\ [][NextCensus]_vars

(***************************************************************************)
(* create_clean_datasets (alice_data_cleaner.py lines 14-77): the master   *)
(* tables as read back from the CSV files, the current-year selection and  *)
(* the mapping table cut from it.                                          *)
(***************************************************************************)
DataYears == {2021, 2022, 2023}

\* rows of ALICE_Master_County_Data.csv: one county of each of two states
MasterCountyRows ==
    { [State |-> pl[1], GEO_id2 |-> pl[2], Year |-> Val(y),
       Households |-> Val(100), ALICE_Percentage |-> Val(2000)] :
         pl \in { <<"Texas", IntV(48201)>>, <<"Arkansas", IntV(5139)>> },
         y \in DataYears }

\* tables of ALICE_Master_Subcounty_Data.csv
MasterSubcountyFrames ==
    { <<>>,
      <<[State |-> "Texas", GEO_id2 |-> IntV(4820101), Year |-> Val(2022),
         Households |-> Val(10), ALICE_Percentage |-> Val(1000)]>>,
      <<[State |-> "Texas", GEO_id2 |-> IntV(4820101), Year |-> Val(2021),
         Households |-> Val(10), ALICE_Percentage |-> Val(1000)],
        [State |-> "Arkansas", GEO_id2 |-> IntV(513901), Year |-> Val(2023),
         Households |-> Val(20), ALICE_Percentage |-> Val(3000)]>> }

\* df['Year'].max(): the largest Year that is not NaN, NaN when there is none
YearMax(df) ==
    LET years == {df[i].Year.v : i \in {j \in 1..Len(df) : NotNa(df[j].Year)}}
    IN  IF years = {} THEN NULL
        ELSE Val(CHOOSE y \in years : \A z \in years : z <= y)

\* lines 24-25: df[df['Year'] == df['Year'].max()]
CurrentYear(df) ==
    SelectSeq(df, LAMBDA row : NotNa(YearMax(df)) /\ row.Year = YearMax(df))

\* lines 64-71: current_county[mapping_fields], of the columns modelled
MappingRow(row) ==
    [State |-> row.State, GEO_id2 |-> row.GEO_id2,
     Households |-> row.Households, ALICE_Percentage |-> row.ALICE_Percentage]

\* create_clean_datasets: the tables written to alice_clean_data
create_clean_datasets(county_df, subcounty_df) ==
    LET current_county == CurrentYear(county_df)
        current_subcounty == CurrentYear(subcounty_df)
    IN  [current_county |-> current_county,
         current_subcounty |-> current_subcounty,
         timeseries_county |-> county_df,
         timeseries_subcounty |-> subcounty_df,
         current_year |-> YearMax(county_df),
         mapping_county |->
             [i \in 1..Len(current_county) |-> MappingRow(current_county[i])],
         mapping_subcounty |->
             [i \in 1..Len(current_subcounty) |-> MappingRow(current_subcounty[i])]]

InitCleaner ==
    /\ \E n \in 0..MaxMasterRows : master_county_csv \in [1..n -> MasterCountyRows]
    /\ master_subcounty_csv \in MasterSubcountyFrames
    /\ clean_data = NULL
    /\ pc = "idle"
    /\ counties_gdf = <<>> /\ alice_df = <<>>
    /\ valid_fips_alice = <<>> /\ missing_fips_alice = <<>>
    /\ merged_gdf = <<>> /\ row_i = 0 /\ stats = NULL
    /\ raw_id = NULL /\ fips_out = NULL
    /\ sheet = NULL /\ cleaned = NULL
    /\ excel_files = <<>> /\ file_i = 0
    /\ master_county = NULL /\ master_subcounty = NULL
    /\ processing_stats = NULL /\ summary_stats = NULL
    /\ alice_gdf = <<>> /\ census_df = <<>>
    /\ integrated_gdf = NULL /\ enhanced_stats = NULL

CreateCleanDatasets ==
    /\ clean_data = NULL
    /\ clean_data' = Val(create_clean_datasets(master_county_csv,
                                               master_subcounty_csv))
    /\ UNCHANGED <<master_county_csv, master_subcounty_csv,
                   joinVars, fipsVars, sheetVars, batchVars, censusVars>>

NextCleaner == CreateCleanDatasets

SpecCleaner == InitCleaner /\ [][NextCleaner]_vars

(***************************************************************************)
(* Properties of the county join (specification Spec).                     *)
(***************************************************************************)
Returned == pc \in {"choropleth", "done"}

RowsOfCounty(frame, geoid) ==
    {i \in 1..Len(frame) : frame[i].GEOID = geoid}

\* C1: the returned frame has exactly one row per county boundary, whatever
\* the ALICE rows are (several of them may carry the same code).
BoundaryCoverage ==
    Returned => Len(merged_gdf) = Len(counties_gdf)

\* C2: a row that got its values from the primary (code) join still holds
\* the values of an ALICE row with its code when the frame is returned; no
\* name lookup has changed them.
PhaseOneFinal ==
    Returned =>
        \A i \in 1..Len(merged_gdf) :
            NotNa(merged_gdf[i].GEO_id2) =>
                \E j \in 1..Len(valid_fips_alice) :
                    /\ valid_fips_alice[j].FIPS = merged_gdf[i].GEOID
                    /\ valid_fips_alice[j].m = merged_gdf[i].m

\* C3: when several ALICE rows clean to the code of one county, the county
\* has a single row in the returned frame and it holds the values of the
\* last of them in input order.
LastWriteWins ==
    Returned =>
        \A k \in 1..Len(counties_gdf) :
            LET hits == RowsWithFips(valid_fips_alice, counties_gdf[k].GEOID)
                rows == RowsOfCounty(merged_gdf, counties_gdf[k].GEOID)
            IN  Len(hits) >= 2 =>
                    /\ Cardinality(rows) = 1
                    /\ \A i \in rows : merged_gdf[i].m = hits[Len(hits)].m

\* the number of counties a row's (state abbreviation, lower-case county
\* name) selects; none when the row has no county or no abbreviation
FallbackKeyCount(a) ==
    IF IsNa(a.County) \/ IsNa(StateAbbr(a.State)) THEN 0
    ELSE Len(CountyMatch(counties_gdf, StateAbbr(a.State).v, a.County.v))

\* one of the first n rows of missing_fips_alice selects the county with
\* this GEOID, and no other county, by name
NameLookupHit(geoid, n) ==
    \E r \in 1..n :
        LET a == missing_fips_alice[r] IN
        /\ FallbackKeyCount(a) = 1
        /\ CountyMatch(counties_gdf, StateAbbr(a.State).v, a.County.v)[1].GEOID = geoid

\* C5: every ALICE row whose identifier cleans to the GEOID of a county is
\* joined to that county by the primary join: from the end of the primary
\* join on, the frame has a row of that county with the row's identifier,
\* and that row holds the row's metric values as long as no name lookup has
\* been applied to the county.
Joined == pc \in {"secondary", "choropleth", "done"}

IsCanonicalId(f) == Len(f) = 5 /\ AllDigits(f)

\* C6: an ALICE row whose identifier is no five-digit code, whose state has
\* an abbreviation and whose (abbreviation, county) selects exactly one
\* county that no row was joined to by code, has its metric values on that
\* county's row in the returned frame.
FallbackAccept ==
    Returned =>
        \A j \in 1..Len(alice_df) :
            LET a == alice_df[j] IN
            (/\ ~IsCanonicalId(a.FIPS)
             /\ FallbackKeyCount(a) = 1
             /\ LET c == CountyMatch(counties_gdf, StateAbbr(a.State).v, a.County.v)[1]
                IN  RowsWithFips(valid_fips_alice, c.GEOID) = <<>>)
            => LET c == CountyMatch(counties_gdf, StateAbbr(a.State).v, a.County.v)[1]
               IN  \A i \in RowsOfCounty(merged_gdf, c.GEOID) :
                       merged_gdf[i].m = a.m

\* C7: the iteration of the name lookup over a row whose key selects no
\* county, or more than one, leaves the joined frame as it is.
AmbiguousLeavesUnresolved ==
    [][(/\ pc = "secondary"
        /\ row_i < Len(missing_fips_alice)
        /\ FallbackKeyCount(missing_fips_alice[row_i + 1]) # 1)
       => merged_gdf' = merged_gdf]_vars

\* C7 witness: the lookup has just passed a row whose key selects the two
\* Union counties of Arkansas, and both have empty metric values.
AmbiguousWitness ==
    /\ pc = "secondary" /\ row_i >= 1
    /\ FallbackKeyCount(missing_fips_alice[row_i]) = 2
    /\ missing_fips_alice[row_i].County = Val(Union)
    /\ Cardinality({i \in 1..Len(merged_gdf) :
                       /\ merged_gdf[i].STUSPS = "AR"
                       /\ merged_gdf[i].NAME = Union
                       /\ merged_gdf[i].m = NoMetrics}) = 2

\* the orphan count of the run report; the report has no such entry
OrphansReported(report) ==
    IF "orphaned_attributes" \in DOMAIN report THEN report.orphaned_attributes
    ELSE 0

\* the ALICE rows with a five-digit code that is no county's GEOID
OrphanRows ==
    {j \in 1..Len(alice_df) :
        /\ IsCanonicalId(alice_df[j].FIPS)
        /\ \A k \in 1..Len(counties_gdf) : counties_gdf[k].GEOID # alice_df[j].FIPS}

\* C8: every ALICE row with a valid code and no county is counted in the
\* run report; none is dropped without a trace.
NoSilentDiscard ==
    pc = "done" => OrphansReported(stats) = Cardinality(OrphanRows)

\* the ALICE row got no county in the primary join: its code has not five
\* characters, or no county has its code
FailedPrimary(a) ==
    \/ ~ValidFips(a.FIPS)
    \/ \A k \in 1..Len(counties_gdf) : counties_gdf[k].GEOID # a.FIPS

\* the name lookup goes over the ALICE row
Considered(a) ==
    \E r \in 1..Len(missing_fips_alice) : missing_fips_alice[r] = a

\* C21: the name lookup goes over an ALICE row exactly when the row got no
\* county in the primary join, be it for its identifier or because no
\* county has its code.
FallbackEligibility ==
    Joined =>
        \A j \in 1..Len(alice_df) :
            Considered(alice_df[j]) <=> FailedPrimary(alice_df[j])

\* the columns of a joined row that come from the shapefile or identify the
\* ALICE row
KeptFields(row) ==
    [GEOID |-> row.GEOID, NAME |-> row.NAME, STUSPS |-> row.STUSPS,
     geometry |-> row.geometry, GEO_id2 |-> row.GEO_id2, FIPS |-> row.FIPS]

\* C23: a name lookup that finds one county changes, on the rows of that
\* county, only metric cells for which the ALICE row has a value (to that
\* value) and the State and County labels; GEOID, NAME, STUSPS and geometry
\* stay, and the rows of every other county stay as they are.
FallbackFrame ==
    [][(/\ pc = "secondary"
        /\ row_i < Len(missing_fips_alice)
        /\ FallbackKeyCount(missing_fips_alice[row_i + 1]) = 1)
       => LET a == missing_fips_alice[row_i + 1]
              geoid == CountyMatch(counties_gdf, StateAbbr(a.State).v,
                                   a.County.v)[1].GEOID
          IN  /\ Len(merged_gdf') = Len(merged_gdf)
              /\ \A i \in 1..Len(merged_gdf) :
                    IF merged_gdf[i].GEOID = geoid
                    THEN /\ KeptFields(merged_gdf'[i]) = KeptFields(merged_gdf[i])
                         /\ merged_gdf'[i].State = a.State
                         /\ merged_gdf'[i].County = a.County
                         /\ \A col \in MetricSet :
                               merged_gdf'[i].m[col] =
                                   IF NotNa(a.m[col]) THEN a.m[col]
                                   ELSE merged_gdf[i].m[col]
                    ELSE merged_gdf'[i] = merged_gdf[i]]_vars

\* C23 witness: a name lookup has just filled a county that the primary
\* join had filled: Households is the lookup row's 50, Poverty_Percentage,
\* blank in the lookup row, is still the 10 of the primary join, and the
\* county's name and geometry are the shapefile's.
FallbackFrameWitness ==
    /\ pc = "secondary" /\ row_i >= 1
    /\ FallbackKeyCount(missing_fips_alice[row_i]) = 1
    /\ IsNa(missing_fips_alice[row_i].m["Poverty_Percentage"])
    /\ \E i \in 1..Len(merged_gdf) :
          /\ merged_gdf[i].m["Households"] = Val(50)
          /\ merged_gdf[i].m["Poverty_Percentage"] = Val(10)
          /\ merged_gdf[i].State = missing_fips_alice[row_i].State
          /\ merged_gdf[i].NAME = Harris
          /\ merged_gdf[i].geometry = "polyHarris"

\* the state name is a key of the table of the 50 states and the federal
\* district
InDistrictTable(cell) ==
    NotNa(cell) /\ (NotNa(StateAbbr(cell)) \/ cell.v = "District of Columbia")

\* C22: the name lookup knows the federal district: a row of the District
\* of Columbia whose county name selects one county with STUSPS "DC" fills
\* that county; a row without county name, or whose state is no key of the
\* table, changes nothing.
DistrictLookup ==
    [][(pc = "secondary" /\ row_i < Len(missing_fips_alice))
       => LET a == missing_fips_alice[row_i + 1]
          IN  /\ (/\ a.State = Val("District of Columbia")
                   /\ NotNa(a.County)
                   /\ Len(CountyMatch(counties_gdf, "DC", a.County.v)) = 1)
                  => LET geoid == CountyMatch(counties_gdf, "DC", a.County.v)[1].GEOID
                     IN  \A i \in 1..Len(merged_gdf) :
                            merged_gdf[i].GEOID = geoid =>
                                /\ merged_gdf'[i].State = a.State
                                /\ \A col \in MetricSet :
                                      NotNa(a.m[col]) =>
                                          merged_gdf'[i].m[col] = a.m[col]
              /\ (IsNa(a.County) \/ ~InDistrictTable(a.State))
                  => merged_gdf' = merged_gdf]_vars

(***************************************************************************)
(* Properties of the identifier clean-up (specification SpecFips).         *)
(***************************************************************************)
\* C4: the cleaned identifier is taken as valid exactly when it has five
\* characters and all of them are digits; a blank cell, a short non-numeric
\* one and a longer-than-five result are invalid.
CanonValidity ==
    fips_out # NULL =>
        (fips_out.v.valid <=> IsCanonicalId(fips_out.v.FIPS))

\* C18: cleaning a cleaned identifier changes nothing: when the code made
\* of a cell is valid, the code made of that code is the same code.
CleanIdempotent ==
    (fips_out # NULL /\ "again" \in DOMAIN fips_out.v /\ fips_out.v.valid)
        => fips_out.v.again = fips_out.v.FIPS

\* C18 witness: 6037.0 was cleaned to 06037 and 06037 was cleaned again.
CleanIdempotentWitness ==
    /\ raw_id = FloatV(6037)
    /\ fips_out # NULL
    /\ "again" \in DOMAIN fips_out.v
    /\ fips_out.v.valid
    /\ fips_out.v.FIPS = <<"0", "6", "0", "3", "7">>
    /\ fips_out.v.again = <<"0", "6", "0", "3", "7">>

(***************************************************************************)
(* Properties of the sheet clean-up (specification SpecSheet).             *)
(***************************************************************************)
PctCols == {"Poverty_Percentage", "ALICE_Percentage", "Above_ALICE_Percentage",
            "Below_ALICE_Threshold_Percentage"}

\* a cell of a cleaned row; a column the frame lacks reads as NaN
CellOf(row, col) == IF col \in DOMAIN row THEN row[col] ELSE NULL

\* C9: a cleaned row with Households = 0 has NaN in all four percentage
\* columns, whatever its other counts are.
ZeroHouseholdsNull ==
    cleaned # NULL =>
        \A i \in 1..Len(cleaned.v.rows) :
            LET row == cleaned.v.rows[i] IN
            CellOf(row, "Households") = Val(0) =>
                \A col \in PctCols : IsNa(CellOf(row, col))

\* households and the named counts are present and households > 0
Computable(row, numerators) ==
    /\ NotNa(CellOf(row, "Households"))
    /\ CellOf(row, "Households").v > 0
    /\ \A col \in numerators : NotNa(CellOf(row, col))

\* C10: in every cleaned row each percentage is set exactly when its own
\* counts and Households are present and Households > 0, whether or not the
\* other count columns exist in the sheet.
NullPropagation ==
    cleaned # NULL =>
        \A i \in 1..Len(cleaned.v.rows) :
            LET row == cleaned.v.rows[i] IN
            /\ NotNa(CellOf(row, "Poverty_Percentage"))
                   <=> Computable(row, {"Poverty Households"})
            /\ NotNa(CellOf(row, "ALICE_Percentage"))
                   <=> Computable(row, {"ALICE Households"})
            /\ NotNa(CellOf(row, "Above_ALICE_Percentage"))
                   <=> Computable(row, {"Above ALICE Households"})
            /\ NotNa(CellOf(row, "Below_ALICE_Threshold_Percentage"))
                   <=> Computable(row, {"Poverty Households", "ALICE Households"})

\* the four count cells of a cleaned row are present and Households > 0
AllCounts(row) == Computable(row, CountColSet)

\* v hundredths is num / households * 100 to two decimals: no other number
\* of hundredths is nearer to the exact value
NearestHundredth(cell, num, households) ==
    /\ "v" \in DOMAIN cell
    /\ 2 * (cell.v * households - num * 10000) <= households
    /\ 2 * (num * 10000 - cell.v * households) <= households

\* C11: in a cleaned row whose four counts are present with Households > 0,
\* the three shares are count / Households * 100 and the below-threshold
\* share is (Poverty + ALICE) / Households * 100, each to two decimals;
\* 1000 / 150 / 300 / 550 gives 15.00, 30.00, 55.00 and 45.00.
PercentageFormulas ==
    cleaned # NULL =>
        \A i \in 1..Len(cleaned.v.rows) :
            LET row == cleaned.v.rows[i]
                hh == row["Households"].v
                pov == row["Poverty Households"].v
                al == row["ALICE Households"].v
                ab == row["Above ALICE Households"].v
            IN  AllCounts(row) =>
                  /\ NearestHundredth(row.Poverty_Percentage, pov, hh)
                  /\ NearestHundredth(row.ALICE_Percentage, al, hh)
                  /\ NearestHundredth(row.Above_ALICE_Percentage, ab, hh)
                  /\ row.Below_ALICE_Threshold_Total = Val(pov + al)
                  /\ NearestHundredth(row.Below_ALICE_Threshold_Percentage,
                                      pov + al, hh)
                  /\ (hh = 1000 /\ pov = 150 /\ al = 300 /\ ab = 550) =>
                        /\ row.Poverty_Percentage = Val(1500)
                        /\ row.ALICE_Percentage = Val(3000)
                        /\ row.Above_ALICE_Percentage = Val(5500)
                        /\ row.Below_ALICE_Threshold_Percentage = Val(4500)

\* C11 witness: the row 1000 / 150 / 300 / 550 has been cleaned and holds
\* 15.00, 30.00, 55.00 and 45.00.
PercentageFormulasWitness ==
    /\ cleaned # NULL
    /\ \E i \in 1..Len(cleaned.v.rows) :
          LET row == cleaned.v.rows[i] IN
          /\ CellOf(row, "Households") = Val(1000)
          /\ CellOf(row, "Poverty Households") = Val(150)
          /\ CellOf(row, "Poverty_Percentage") = Val(1500)
          /\ CellOf(row, "ALICE_Percentage") = Val(3000)
          /\ CellOf(row, "Above_ALICE_Percentage") = Val(5500)
          /\ CellOf(row, "Below_ALICE_Threshold_Percentage") = Val(4500)

\* num / den to a whole number, a tie going away from zero (num >= 0, den > 0)
RoundHalfAway(num, den) ==
    IF 2 * (num % den) >= den THEN (num \div den) + 1 ELSE num \div den

\* C12: every percentage of a cleaned row is the exact share rounded to two
\* decimals with ties away from zero; 1 of 800 households (0.125) is 0.13.
RoundsHalfAway ==
    cleaned # NULL =>
        \A i \in 1..Len(cleaned.v.rows) :
            LET row == cleaned.v.rows[i]
                hh == row["Households"].v
                pov == row["Poverty Households"].v
                al == row["ALICE Households"].v
                ab == row["Above ALICE Households"].v
            IN  AllCounts(row) =>
                  /\ row.Poverty_Percentage = Val(RoundHalfAway(pov * 10000, hh))
                  /\ row.ALICE_Percentage = Val(RoundHalfAway(al * 10000, hh))
                  /\ row.Above_ALICE_Percentage = Val(RoundHalfAway(ab * 10000, hh))
                  /\ row.Below_ALICE_Threshold_Percentage =
                         Val(RoundHalfAway((pov + al) * 10000, hh))

\* C13: every percentage of a cleaned row that is a number lies between 0
\* and 100, also when a count is larger than Households.
PercentageRange ==
    cleaned # NULL =>
        \A i \in 1..Len(cleaned.v.rows) : \A col \in PctCols :
            LET cell == CellOf(cleaned.v.rows[i], col) IN
            "v" \in DOMAIN cell => (cell.v >= 0 /\ cell.v <= 10000)

\* the skipped-row count of a cleaned sheet; the clean-up returns no count
SkippedRows(result) ==
    IF "skipped_rows" \in DOMAIN result THEN result.skipped_rows ELSE 0

\* the rows of the sheet that hold something but no Households count
RowsWithoutHouseholds ==
    {i \in 1..Len(sheet.rows) :
        /\ IsNa(CellOf(sheet.rows[i], "Households"))
        /\ \E c \in DOMAIN sheet.rows[i] : NotNa(sheet.rows[i][c])}

\* C19: a sheet row without a Households count gives no cleaned row and is
\* counted as skipped; the other rows of the sheet are cleaned.
MissingHouseholdsSkipped ==
    cleaned # NULL =>
        /\ \A i \in 1..Len(cleaned.v.rows) :
               NotNa(CellOf(cleaned.v.rows[i], "Households"))
        /\ SkippedRows(cleaned.v) = Cardinality(RowsWithoutHouseholds)

\* the expected columns of the sheet kind
RecognizedCols(kind) ==
    IF kind = "County"
    THEN {county_expected_cols[i] : i \in 1..Len(county_expected_cols)}
    ELSE {subcounty_expected_cols[i] : i \in 1..Len(subcounty_expected_cols)}

\* C20: no cleaned row has all its expected columns blank; a sheet row with
\* a value only in a column that is not expected is dropped.
BlankRelativeToSchema ==
    cleaned # NULL =>
        \A i \in 1..Len(cleaned.v.rows) :
            \E c \in RecognizedCols(cleaned.v.kind) \cap DOMAIN cleaned.v.rows[i] :
                NotNa(cleaned.v.rows[i][c])

(***************************************************************************)
(* Properties of the batch (specification SpecBatch).                      *)
(***************************************************************************)
\* the names of the workbooks among the first n listed whose processing raises
RECURSIVE RaisedNames(_, _)
RaisedNames(files, n) ==
    IF n = 0 THEN <<>>
    ELSE RaisedNames(files, n - 1)
         \o (IF FileRaises(files[n]) THEN <<files[n].name>> ELSE <<>>)

\* C14: a workbook whose processing raises is counted and named, and the
\* loop goes on: after n workbooks files_processed + files_failed = n,
\* files_failed is the length of failed_files and failed_files holds the
\* names of exactly the workbooks that raised, up to and including the
\* last workbook listed.
BatchNeverAborts ==
    processing_stats # NULL =>
        /\ processing_stats.files_processed + processing_stats.files_failed = file_i
        /\ processing_stats.files_failed = Len(processing_stats.failed_files)
        /\ processing_stats.failed_files = RaisedNames(excel_files, file_i)
        /\ file_i <= Len(excel_files)

\* C14 witness: the loop is over, a workbook raised and a workbook listed
\* after it went through.
BatchNeverAbortsWitness ==
    /\ processing_stats # NULL
    /\ file_i = Len(excel_files)
    /\ \E i, j \in 1..Len(excel_files) :
          i < j /\ FileRaises(excel_files[i]) /\ ~FileRaises(excel_files[j])
    /\ processing_stats.files_failed >= 1
    /\ processing_stats.files_processed >= 1

\* C15: the master tables do not depend on the order in which the
\* workbooks are listed: any listing of the same workbooks gives the same
\* rows in the same order.
MergeOrderReproducible ==
    (processing_stats # NULL /\ file_i = Len(excel_files)) =>
        \A other \in Orderings({excel_files[i] : i \in 1..Len(excel_files)}) :
            LET c == ProcessAll(other, InitialConsolidator) IN
            /\ c.master_county = master_county
            /\ c.master_subcounty = master_subcounty

\* the number of values of a column of a master table that are not NaN; none
\* when the table has no such column
NonNullCount(frame, col) ==
    IF col \in frame.cols THEN ColCount(frame, col) ELSE 0

AvgMetrics ==
    { <<"avg_poverty_percentage", "Poverty_Percentage">>,
      <<"avg_alice_percentage", "ALICE_Percentage">>,
      <<"avg_below_alice_threshold", "Below_ALICE_Threshold_Percentage">> }

\* C17: in the county summary a metric without a single value (the column
\* is all NaN, or the master table has no such column) has a NaN mean, never
\* 0, and a sum without values is 0.
MeanSumPolicy ==
    (summary_stats # NULL /\ "county" \in DOMAIN summary_stats.v) =>
        /\ \A m \in AvgMetrics :
               NonNullCount(master_county, m[2]) = 0
                   => summary_stats.v.county[m[1]] = NULL
        /\ NonNullCount(master_county, "Households") = 0
               => summary_stats.v.county.total_households_county = 0

\* the first n workbooks listed whose processing does not raise
RECURSIVE Processed(_, _)
Processed(files, n) ==
    IF n = 0 THEN <<>>
    ELSE Processed(files, n - 1)
         \o (IF FileRaises(files[n]) THEN <<>> ELSE <<files[n]>>)

\* C25: a workbook counted as failed leaves nothing behind: the master
\* tables and the two totals are what the workbooks that went through give
\* on their own, also when the County sheet of the failed workbook was
\* cleaned before its Subcounty sheet raised.
AtomicFiles ==
    processing_stats # NULL =>
        LET c == ProcessAll(Processed(excel_files, file_i), InitialConsolidator)
        IN  /\ master_county = c.master_county
            /\ master_subcounty = c.master_subcounty
            /\ processing_stats.total_counties = c.processing_stats.total_counties
            /\ processing_stats.total_subcounty_areas =
                   c.processing_stats.total_subcounty_areas

\* the totals are the numbers of rows of the master tables
CountersMatch(mc, ms, processing) ==
    /\ processing.total_counties = Len(mc.rows)
    /\ processing.total_subcounty_areas = Len(ms.rows)

\* the table after is the table before with rows added at its end
GrownByAppending(before, after) ==
    /\ Len(after.rows) >= Len(before.rows)
    /\ before.cols \subseteq after.cols
    /\ \A i \in 1..Len(before.rows) : \A col \in before.cols :
           after.rows[i][col] = before.rows[i][col]

\* C26: before and after every process_single_file call, whether it
\* returns or raises, total_counties is the number of rows of master_county
\* and total_subcounty_areas that of master_subcounty, and the call only
\* adds rows at the end of the two tables.
CounterConsistency ==
    [][processing_stats # NULL =>
          /\ CountersMatch(master_county, master_subcounty, processing_stats)
          /\ CountersMatch(master_county', master_subcounty', processing_stats')
          /\ GrownByAppending(master_county, master_county')
          /\ GrownByAppending(master_subcounty, master_subcounty')]_vars

\* C26 witness: a workbook went through and a workbook raised after its
\* County sheet was appended; the tables have rows and the totals match.
CounterConsistencyWitness ==
    /\ processing_stats # NULL
    /\ processing_stats.files_processed >= 1
    /\ \E i \in 1..file_i :
          /\ FileRaises(excel_files[i])
          /\ \E r \in 1..Len(master_county.rows) :
                master_county.rows[r]["Data_Source_File"]
                    = Val(extract_state_name(excel_files[i].name))
    /\ Len(master_county.rows) >= 2
    /\ Len(master_subcounty.rows) >= 1
    /\ CountersMatch(master_county, master_subcounty, processing_stats)

(***************************************************************************)
(* Properties of the census integration (specification SpecCensus).        *)
(***************************************************************************)
DerivedMetrics == {"Population_Per_Household", "ALICE_Population",
                   "Poverty_Population"}

\* C16: every derived metric of every county is NaN when an input of it is
\* NaN or its denominator is 0 (Households = 0 for the population per
\* household), and none is infinite.
GuardedMetrics ==
    integrated_gdf # NULL =>
        \A i \in 1..Len(integrated_gdf.v.rows) :
            LET row == integrated_gdf.v.rows[i] IN
            /\ (IsNa(row.Total_Population) \/ IsNa(row.Households)
                    \/ row.Households = Val(0))
                   => IsNa(row.Population_Per_Household)
            /\ (IsNa(row.Total_Population) \/ IsNa(row.ALICE_Percentage))
                   => IsNa(row.ALICE_Population)
            /\ (IsNa(row.Total_Population) \/ IsNa(row.Poverty_Percentage))
                   => IsNa(row.Poverty_Population)
            /\ \A col \in DerivedMetrics : row[col] # Inf

(***************************************************************************)
(* Properties of the clean datasets (specification SpecCleaner).           *)
(***************************************************************************)
\* the selection that keeps, for every county, the rows of its own last year
LatestPerCounty(df) ==
    SelectSeq(df, LAMBDA row :
        /\ NotNa(row.Year)
        /\ \A j \in 1..Len(df) :
              (df[j].GEO_id2 = row.GEO_id2 /\ NotNa(df[j].Year))
                  => df[j].Year.v <= row.Year.v)

\* C24: the current county table holds, for every county of the master
\* table, the county's rows of its own most recent Year and nothing else,
\* also when the most recent years of the counties differ.
CurrentIsLatest ==
    clean_data # NULL =>
        /\ clean_data.v.current_county = LatestPerCounty(master_county_csv)
        /\ \A j \in 1..Len(master_county_csv) :
               \E i \in 1..Len(clean_data.v.current_county) :
                   clean_data.v.current_county[i].GEO_id2
                       = master_county_csv[j].GEO_id2

=============================================================================
